---- MODULE Spec2Model ----
(***************************************************************************)
(* protogetter: a go/analysis pass that reports direct reads of fields of  *)
(* generated protobuf messages and proposes the getter call instead.       *)
(*                                                                         *)
(* src/protogetter.go holds two revisions of the driver:                   *)
(*   - lines 1-189:   Run walks the files with inspector.Nodes and prunes  *)
(*                    sub-trees by node kind (SpecV1 below);               *)
(*   - lines 191-379: Run walks the files with inspector.Preorder and      *)
(*                    deduplicates with a PosFilter (SpecV2 below).        *)
(* Source text is modelled as sequences of one-character strings so that   *)
(* prefix tests, concatenation, printing and parsing are real computations.*)
(***************************************************************************)
EXTENDS Integers, Sequences, FiniteSets, TLC

VARIABLES
  methods,   \* types.Info: the methods declared on the message type T
  infoNil,   \* pass.TypesInfo == nil
  files,     \* pass.Files: each [comments, stmts]
  mode,      \* Run's mode argument
  events,    \* the inspector's event list over the non-generated files
  i,         \* index of the next event
  diags,     \* diagnostics handed to pass.Report, in order
  issues,    \* Run's local issues slice
  filter,    \* the PosFilter of the run
  reports,   \* the Reports analyse has returned in this run, in order
  run,       \* 1: the pass over the input, 2: the pass over the fixed program
  pc         \* "run" while Run is traversing, "done" once it has returned

vars == <<methods, infoNil, files, mode, events, i, diags, issues, filter, reports, run, pc>>

\* ------------------------------------------------------------------ bounds
MaxChain == 2   \* longest selector chain x.F1...Fn in an input expression
MaxFiles == 2   \* files of a multi-file pass
MaxStmts == 1   \* statements per file of a multi-file pass

\* --------------------------------------------------------------- constants
StandaloneMode == 0
GolangciLintMode == 1

sGet == <<"G", "e", "t">>
sCall == <<"(", ")">>
sDot == <<".">>
protoV2Method == <<"P", "r", "o", "t", "o", "R", "e", "f", "l", "e", "c", "t">>
protoV1Method == <<"P", "r", "o", "t", "o", "M", "e", "s", "s", "a", "g", "e">>
protocGenGoGoMethod ==
  <<"M", "a", "r", "s", "h", "a", "l", "T", "o", "S", "i", "z", "e", "d",
    "B", "u", "f", "f", "e", "r">>
sCodeGenerated ==
  <<"C", "o", "d", "e", " ", "g", "e", "n", "e", "r", "a", "t", "e", "d">>

\* strings.HasPrefix
HasPrefix(s, p) == Len(s) >= Len(p) /\ SubSeq(s, 1, Len(p)) = p

\* ------------------------------------------------------------- syntax tree
\* One record shape for every ast.Node: X and Y are child lists (X: operand,
\* receiver, callee or left-hand sides; Y: right-hand sides), name is the
\* identifier or operator, gap the number of blanks the source has before the
\* dot of a selector, bad marks a node for which format.Node returns an error.
Ident(nm) ==
  [k |-> "Ident", X |-> <<>>, Y |-> <<>>, name |-> nm, gap |-> 0, bad |-> FALSE]
Sel(x, nm, g, b) ==
  [k |-> "Sel", X |-> <<x>>, Y |-> <<>>, name |-> nm, gap |-> g, bad |-> b]
Call(f) ==
  [k |-> "Call", X |-> <<f>>, Y |-> <<>>, name |-> <<>>, gap |-> 0, bad |-> FALSE]
Unary(op, x) ==
  [k |-> "Unary", X |-> <<x>>, Y |-> <<>>, name |-> op, gap |-> 0, bad |-> FALSE]
Assign(lhs, rhs) ==
  [k |-> "Assign", X |-> lhs, Y |-> rhs, name |-> <<>>, gap |-> 0, bad |-> FALSE]
IncDec(x, op) ==
  [k |-> "IncDec", X |-> <<x>>, Y |-> <<>>, name |-> op, gap |-> 0, bad |-> FALSE]
ExprStmt(x) ==
  [k |-> "ExprStmt", X |-> <<x>>, Y |-> <<>>, name |-> <<>>, gap |-> 0, bad |-> FALSE]
FileNode ==
  [k |-> "File", X |-> <<>>, Y |-> <<>>, name |-> <<>>, gap |-> 0, bad |-> FALSE]

opAND == <<"&">>
opSUB == <<"-">>
opINC == <<"+", "+">>
opDEC == <<"-", "-">>

Blanks(n) == [j \in 1..n |-> " "]

RECURSIVE JoinSrc(_, _)
RECURSIVE SrcText(_)
\* The bytes of a node in the source file, layout included.
SrcText(n) ==
  CASE n.k = "Ident" -> n.name
    [] n.k = "Sel" -> SrcText(n.X[1]) \o Blanks(n.gap) \o sDot \o n.name
    [] n.k = "Call" -> SrcText(n.X[1]) \o sCall
    [] n.k = "Unary" -> n.name \o SrcText(n.X[1])
    [] n.k = "IncDec" -> SrcText(n.X[1]) \o n.name
    [] n.k = "ExprStmt" -> SrcText(n.X[1])
    [] n.k = "Assign" -> JoinSrc(n.X, 1) \o <<" ", "=", " ">> \o JoinSrc(n.Y, 1)
    [] OTHER -> <<>>
JoinSrc(list, j) ==
  IF j > Len(list) THEN <<>>
  ELSE IF j = Len(list) THEN SrcText(list[j])
  ELSE SrcText(list[j]) \o <<",", " ">> \o JoinSrc(list, j + 1)

RECURSIVE PrintErr(_)
\* format.Node fails on a node when the node or a node printed inside it is
\* malformed.
PrintErr(n) ==
  n.bad \/ (\E j \in 1..Len(n.X) : PrintErr(n.X[j]))
        \/ (\E j \in 1..Len(n.Y) : PrintErr(n.Y[j]))

RECURSIVE Render(_)
\* go/format's rendering of an expression: canonical layout, no blanks
\* around the selector dot.
Render(n) ==
  CASE n.k = "Ident" -> n.name
    [] n.k = "Sel" -> Render(n.X[1]) \o sDot \o n.name
    [] n.k = "Call" -> Render(n.X[1]) \o sCall
    [] n.k = "Unary" -> n.name \o Render(n.X[1])
    [] OTHER -> <<>>

\* formatNode: the printed text, or "" when format.Node returns an error
\* (the error is only logged).
formatNode(n) == IF PrintErr(n) THEN <<>> ELSE Render(n)

\* -------------------------------------------------------------------- types
\* A types.Type: ptr levels of pointer over base, where base is the named
\* struct "T", the named pointer type "PT" (type PT *T), the basic type "int",
\* a method signature "func", or "none" when no type is recorded.
Ty(p, b) == [ptr |-> p, base |-> b]
NoType == Ty(0, "none")

idM == <<"m">>
idV == <<"v">>
idQ == <<"q">>
idPP == <<"p", "p">>
idN == <<"n">>
idU == <<"u">>
idBlank == <<"_">>

fB == <<"B">>
fD == <<"D">>
fGetX == <<"G", "e", "t", "X">>
Fields == {fB, fD, fGetX}

\* The declarations of the analysed package: var m *T; var v T; var q PT;
\* var pp **T; var n int; u has no recorded type.
IdentType(nm) ==
  CASE nm = idM -> Ty(1, "T")
    [] nm = idV -> Ty(0, "T")
    [] nm = idQ -> Ty(0, "PT")
    [] nm = idPP -> Ty(2, "T")
    [] nm = idN -> Ty(0, "int")
    [] OTHER -> NoType

\* type T struct { B *T; D int; GetX int }
FieldType(f) ==
  CASE f = fB -> Ty(1, "T")
    [] f = fD -> Ty(0, "int")
    [] f = fGetX -> Ty(0, "int")
    [] OTHER -> NoType

\* t.Underlying()
Underlying(t) == IF t = Ty(0, "PT") THEN Ty(1, "T") ELSE t
\* ptr.Elem()
Elem(t) == Ty(t.ptr - 1, t.base)
\* t.(*types.Named)
IsNamed(t) == t.ptr = 0 /\ t.base \in {"T", "PT"}
\* the methods a named type declares
DeclMethods(t) == IF t.base = "T" THEN methods ELSE {}
\* x.f selects a field or method of T through at most one pointer
IsStructT(t) == t \in {Ty(0, "T"), Ty(1, "T"), Ty(0, "PT")}

\* the type of x.name for x of type t: a field of T, a method value of T,
\* or nothing
SelType(t, name) ==
  IF ~IsStructT(t) THEN NoType
  ELSE IF name \in Fields THEN FieldType(name)
  ELSE IF t.base = "T" /\ name \in methods THEN Ty(0, "func")
  ELSE NoType
\* the type of f() for a callee f of type tf: a getter yields its field
CallType(f, tf) ==
  IF f.k = "Sel" /\ tf = Ty(0, "func") /\ HasPrefix(f.name, sGet)
  THEN FieldType(SubSeq(f.name, Len(sGet) + 1, Len(f.name)))
  ELSE NoType
\* the type of op x for x of type t
UnaryType(op, t) ==
  IF t = NoType THEN NoType
  ELSE IF op = opAND THEN Ty(t.ptr + 1, t.base) ELSE t

RECURSIVE TypeOf(_)
\* info.TypeOf(x): the type the checker recorded for an expression.
TypeOf(n) ==
  CASE n.k = "Ident" -> IdentType(n.name)
    [] n.k = "Sel" -> SelType(TypeOf(n.X[1]), n.name)
    [] n.k = "Call" -> CallType(n.X[1], TypeOf(n.X[1]))
    [] n.k = "Unary" -> UnaryType(n.name, TypeOf(n.X[1]))
    [] OTHER -> NoType


\* ------------------------------------------------------- capability oracle
\* methodExists, lines 162-178, on the type t found for the expression:
\* one pointer of the underlying type is dereferenced, the result must be a
\* named type, and its declared methods are searched for the name
methodExistsOn(t, name) ==
  IF t = NoType THEN FALSE
  ELSE IF Underlying(t).ptr > 0
  THEN IsNamed(Elem(Underlying(t)))
       /\ \E m \in DeclMethods(Elem(Underlying(t))) : m = name
  ELSE IsNamed(t) /\ \E m \in DeclMethods(t) : m = name

\* methodExists(info, x, name)
methodExists(x, name) ==
  IF infoNil THEN FALSE ELSE methodExistsOn(TypeOf(x), name)

\* isProtoMessage(info, expr) as a plausible slip would write it: the
\* MarshalToSizedBuffer exception is forgotten.
isProtoMessage_NoGogo(expr) ==
  methodExists(expr, protoV2Method) \/ methodExists(expr, protoV1Method)

\* isProtoMessage(info, expr)
isProtoMessage(expr) ==
  IF methodExists(expr, protoV2Method) THEN TRUE
  ELSE IF methodExists(expr, protoV1Method)
       THEN ~methodExists(expr, protocGenGoGoMethod)
       ELSE FALSE

\* A Report of the first revision; nil is the empty list.
Report(se, p) ==
  [Pos |-> p, End |-> p + Len(SrcText(se)),
   From |-> formatNode(se),
   To |-> formatNode(se.X[1]) \o sDot \o sGet \o se.name \o sCall,
   SelPos |-> p + Len(SrcText(se)) - Len(se.name),
   SelEnd |-> p + Len(SrcText(se)),
   SelFrom |-> se.name,
   SelTo |-> sGet \o se.name \o sCall]

\* analyzeSelectorExpr without the test for a declared getter.
analyzeSelectorExpr_NoGetterTest(se, p) ==
  IF ~isProtoMessage(se.X[1]) THEN <<>>
  ELSE IF se.name = <<>> \/ HasPrefix(se.name, sGet) THEN <<>>
  ELSE <<Report(se, p)>>

\* analyzeSelectorExpr(pass, se); se.Sel == nil is the empty name.
analyzeSelectorExpr(se, p) ==
  IF ~isProtoMessage(se.X[1]) THEN <<>>
  ELSE IF se.name = <<>> \/ HasPrefix(se.name, sGet) THEN <<>>
  ELSE IF methodExists(se.X[1], sGet \o se.name) THEN <<Report(se, p)>>
  ELSE <<>>

\* ----------------------------------------------------------- files, events
\* ast.CommentGroup.Text(): the comment without its marker and first blank.
CommentText(c) ==
  LET body == IF HasPrefix(c, <<"/", "/">>) THEN SubSeq(c, 3, Len(c)) ELSE c
  IN IF Len(body) > 0 /\ body[1] = " " THEN SubSeq(body, 2, Len(body)) ELSE body

\* isGeneratedFile(f) with the marker test lost: no file counts as generated
isGeneratedFile_Never(f) ==
  \E j \in 1..Len(f.comments) : FALSE

\* isGeneratedFile(f)
isGeneratedFile(f) ==
  \E j \in 1..Len(f.comments) : HasPrefix(CommentText(f.comments[j]), sCodeGenerated)

RECURSIVE SumLen(_, _)
\* bytes of the first j lines of a list of texts, one newline after each
SumLen(texts, j) == IF j = 0 THEN 0 ELSE SumLen(texts, j - 1) + Len(texts[j]) + 1

StmtTexts(f) == [j \in 1..Len(f.stmts) |-> SrcText(f.stmts[j])]
\* bytes of a file: its comment lines, then one statement per line
FileSize(f) ==
  SumLen(f.comments, Len(f.comments)) + SumLen(StmtTexts(f), Len(f.stmts))

RECURSIVE FileBase(_, _)
\* token.FileSet: the base of the k-th file
FileBase(fs, k) ==
  IF k = 1 THEN 1 ELSE FileBase(fs, k - 1) + FileSize(fs[k - 1]) + 1

RECURSIVE ListOffset(_, _)
\* bytes of a comma-separated list before its j-th element
ListOffset(list, j) ==
  IF j = 1 THEN 0 ELSE ListOffset(list, j - 1) + Len(SrcText(list[j - 1])) + 2

\* the children of a node with their positions, in ast.Inspect order
Kids(n, p) ==
  CASE n.k = "Sel" ->
         <<[n |-> n.X[1], p |-> p],
           [n |-> Ident(n.name), p |-> p + Len(SrcText(n.X[1])) + n.gap + Len(sDot)]>>
    [] n.k \in {"Call", "IncDec", "ExprStmt"} -> <<[n |-> n.X[1], p |-> p]>>
    [] n.k = "Unary" -> <<[n |-> n.X[1], p |-> p + Len(n.name)]>>
    [] n.k = "Assign" ->
         [j \in 1..Len(n.X) |-> [n |-> n.X[j], p |-> p + ListOffset(n.X, j)]]
         \o [j \in 1..Len(n.Y) |->
               [n |-> n.Y[j], p |-> p + ListOffset(n.X, Len(n.X) + 1) + 1 + ListOffset(n.Y, j)]]
    [] OTHER -> <<>>

\* the push event of a node, the events of its children, its pop event
Bracket(n, p, e, inner) ==
  <<[node |-> n, pos |-> p, end |-> e, push |-> TRUE, index |-> Len(inner) + 1]>>
  \o inner
  \o <<[node |-> n, pos |-> p, end |-> e, push |-> FALSE, index |-> 0 - (Len(inner) + 1)]>>

RECURSIVE EventsOf(_, _)
RECURSIVE KidEvents(_, _)
\* inspector.New: the push and pop events of a sub-tree; index is the
\* distance to the matching event.
EventsOf(n, p) == Bracket(n, p, p + Len(SrcText(n)), KidEvents(Kids(n, p), 1))
KidEvents(kids, j) ==
  IF j > Len(kids) THEN <<>>
  ELSE EventsOf(kids[j].n, kids[j].p) \o KidEvents(kids, j + 1)

RECURSIVE StmtEvents(_, _, _)
StmtEvents(f, base, j) ==
  IF j > Len(f.stmts) THEN <<>>
  ELSE EventsOf(f.stmts[j],
                base + SumLen(f.comments, Len(f.comments)) + SumLen(StmtTexts(f), j - 1))
       \o StmtEvents(f, base, j + 1)

FileEvents(f, base) ==
  Bracket(FileNode, base, base + FileSize(f), StmtEvents(f, base, 1))

RECURSIVE ForestEvents(_, _)
\* the events of the files Run keeps: generated files are skipped
ForestEvents(fs, k) ==
  IF k > Len(fs) THEN <<>>
  ELSE (IF isGeneratedFile(fs[k]) THEN <<>> ELSE FileEvents(fs[k], FileBase(fs, k)))
       \o ForestEvents(fs, k + 1)

Absolute(evs) == [j \in 1..Len(evs) |-> [evs[j] EXCEPT !.index = j + @]]

\* inspector.New(files): event indexes made absolute
NewInspector(fs) == Absolute(ForestEvents(fs, 1))

RECURSIVE NextMatch(_, _, _)
\* the inspector's type mask: the next event whose node kind is asked for
NextMatch(evs, j, kinds) ==
  IF j > Len(evs) THEN Len(evs) + 1
  ELSE IF evs[j].node.k \in kinds THEN j
  ELSE NextMatch(evs, j + 1, kinds)


\* ------------------------------------------------------------------ inputs
mProtoMarkers == {protoV2Method, protoV1Method, protocGenGoGoMethod}
mGetB == sGet \o fB
mGetD == sGet \o fD
mGetGetX == sGet \o fGetX
\* protoc-gen-go output: both markers and every getter
mStandard == {protoV2Method, protoV1Method, mGetB, mGetD}
\* the method sets the analysed package declares on T in the traversal
\* inputs: current and older generator output, gogo output, generator output
\* lacking one getter, and a hand-written type with getters but no marker
MethodSets ==
  { mStandard,
    {protoV1Method, mGetB, mGetD},
    {protoV1Method, protocGenGoGoMethod, mGetB, mGetD},
    {protoV2Method, protoV1Method, mGetB},
    {protoV2Method, protoV1Method, mGetD},
    {mGetB, mGetD} }

ProgIdents == {idM, idV, idU}

RECURSIVE Chains(_)
\* well-typed selector chains of at most d selectors: only B, a *T, can be
\* selected from again
Chains(d) ==
  IF d = 0 THEN {Ident(id) : id \in ProgIdents}
  ELSE LET prev == Chains(d - 1)
       IN prev \cup {Sel(x, f, 0, FALSE) :
                       x \in {y \in prev : y.k = "Ident" \/ y.name = fB}, f \in Fields}

\* the field accesses of the inputs: the outermost selector may be laid out
\* with a blank before its dot, or be one that format.Node rejects
SelExprs ==
  LET plain == {c \in Chains(MaxChain) : c.k = "Sel"}
  IN plain \cup {[c EXCEPT !.gap = 1] : c \in plain}
           \cup {[c EXCEPT !.bad = TRUE] : c \in plain}

Blank == Ident(idBlank)
ReadMD == Sel(Ident(idM), fD, 0, FALSE)
\* the statement shapes the traversal distinguishes
StmtsOf(e) ==
  { Assign(<<Blank>>, <<e>>),                 \* _ = e
    Assign(<<e>>, <<Ident(idN)>>),            \* e = n
    Assign(<<e>>, <<ReadMD>>),                \* e = m.D
    Assign(<<Blank, e>>, <<Ident(idN), Ident(idN)>>),  \* _, e = n, n
    IncDec(e, opINC),                         \* e++
    IncDec(e, opDEC),                         \* e--
    Assign(<<Blank>>, <<Unary(opAND, e)>>),   \* _ = &e
    Assign(<<Blank>>, <<Unary(opSUB, e)>>) }  \* _ = -e
Stmts == UNION {StmtsOf(e) : e \in SelExprs}

cGenerated == <<"/", "/", " ">> \o sCodeGenerated \o <<" ", "b", "y", " ", "x">>
cPlain == <<"/", "/", " ", "x">>
HeaderMenu == {<<>>, <<cGenerated>>}
SmallStmts ==
  { Assign(<<Blank>>, <<Sel(Sel(Ident(idM), fB, 0, FALSE), fD, 0, FALSE)>>),
    Assign(<<Blank>>, <<Sel(Sel(Ident(idM), fB, 0, FALSE), fD, 0, TRUE)>>) }
FileMenu ==
  {[comments |-> c, stmts |-> st] : c \in HeaderMenu, st \in [1..MaxStmts -> SmallStmts]}

\* the passes Run is given: one commented file holding one statement of
\* every shape under every method set, and several files with and without a
\* generated-code header in either mode
Inputs ==
  {[methods |-> ms, infoNil |-> FALSE, mode |-> StandaloneMode,
    files |-> <<[comments |-> <<cPlain>>, stmts |-> <<st>>]>>] :
     ms \in MethodSets, st \in Stmts}
  \cup
  {[methods |-> mStandard, infoNil |-> FALSE, mode |-> md, files |-> fs] :
     md \in {StandaloneMode, GolangciLintMode},
     fs \in [1..MaxFiles -> FileMenu]}

NewPosFilter == [positions |-> {}, alreadyReplaced |-> {}]

Init ==
  /\ \E in \in Inputs :
       /\ methods = in.methods
       /\ infoNil = in.infoNil
       /\ mode = in.mode
       /\ files = in.files
  /\ events = <<>>
  /\ i = 1
  /\ diags = <<>>
  /\ issues = <<>>
  /\ filter = NewPosFilter
  /\ reports = <<>>
  /\ run = 1
  /\ pc = "start"

\* ------------------------------------------------- Run, first revision
nodeTypesV1 == {"Assign", "IncDec", "Unary", "Sel"}

\* Run, lines 36-53: drop the generated files and build the inspector
RunV1_Start ==
  /\ pc = "start"
  /\ events' = NewInspector(files)
  /\ i' = NextMatch(events', 1, nodeTypesV1)
  /\ issues' = <<>>
  /\ pc' = "run"
  /\ UNCHANGED <<methods, infoNil, files, mode, diags, filter, reports, run>>

\* the callback's switch with the address-of case lost
dontStop_NoAddr(n) ==
  CASE n.k = "Assign" -> ~(\E j \in 1..Len(n.X) : n.X[j].k = "Sel")
    [] n.k = "IncDec" -> FALSE
    [] OTHER -> TRUE

\* the callback's switch over the node kind: whether to descend into the
\* node's children (true for a selector, which is analysed first)
dontStop(n) ==
  CASE n.k = "Assign" -> ~(\E j \in 1..Len(n.X) : n.X[j].k = "Sel")
    [] n.k = "IncDec" -> FALSE
    [] n.k = "Unary" -> n.name # opAND
    [] OTHER -> TRUE

\* inspector.Nodes after the callback returned: into the children, or past
\* the matching pop event
AfterPush(ev, descend, kinds) ==
  IF descend THEN NextMatch(events, i + 1, kinds)
  ELSE NextMatch(events, ev.index + 1, kinds)

Cur == events[i]
InRun == pc = "run" /\ i <= Len(events)

\* callback, !push: return false
Nodes_Pop ==
  /\ InRun /\ ~Cur.push
  /\ i' = NextMatch(events, i + 1, nodeTypesV1)
  /\ UNCHANGED <<methods, infoNil, files, mode, events, diags, issues, filter, reports, run, pc>>

\* callback, case *ast.AssignStmt
Nodes_AssignStmt ==
  /\ InRun /\ Cur.push /\ Cur.node.k = "Assign"
  /\ i' = AfterPush(Cur, dontStop(Cur.node), nodeTypesV1)
  /\ UNCHANGED <<methods, infoNil, files, mode, events, diags, issues, filter, reports, run, pc>>

\* callback, case *ast.IncDecStmt
Nodes_IncDecStmt ==
  /\ InRun /\ Cur.push /\ Cur.node.k = "IncDec"
  /\ i' = AfterPush(Cur, dontStop(Cur.node), nodeTypesV1)
  /\ UNCHANGED <<methods, infoNil, files, mode, events, diags, issues, filter, reports, run, pc>>

\* callback, case *ast.UnaryExpr
Nodes_UnaryExpr ==
  /\ InRun /\ Cur.push /\ Cur.node.k = "Unary"
  /\ i' = AfterPush(Cur, dontStop(Cur.node), nodeTypesV1)
  /\ UNCHANGED <<methods, infoNil, files, mode, events, diags, issues, filter, reports, run, pc>>

\* callback, *ast.SelectorExpr: analyse, report by mode, descend
Nodes_SelectorExpr ==
  /\ InRun /\ Cur.push /\ Cur.node.k = "Sel"
  /\ LET report == analyzeSelectorExpr(Cur.node, Cur.pos) IN
       /\ diags' = IF report # <<>> /\ mode = StandaloneMode
                   THEN diags \o report ELSE diags
       /\ issues' = IF report # <<>> /\ mode = GolangciLintMode
                    THEN issues \o report ELSE issues
  /\ i' = AfterPush(Cur, dontStop(Cur.node), nodeTypesV1)
  /\ UNCHANGED <<methods, infoNil, files, mode, events, filter, reports, run, pc>>

\* Run returns issues
RunV1_Return ==
  /\ pc = "run" /\ i > Len(events)
  /\ pc' = "done"
  /\ UNCHANGED <<methods, infoNil, files, mode, events, i, diags, issues, filter, reports, run>>

NextV1 ==
  \/ RunV1_Start
  \/ Nodes_Pop
  \/ Nodes_AssignStmt
  \/ Nodes_IncDecStmt
  \/ Nodes_UnaryExpr
  \/ Nodes_SelectorExpr
  \/ RunV1_Return

SpecV1 == Init /\ [][NextV1]_vars


\* --------------------------------------------- the oracle on its own inputs
\* every shape of base type, every field name (the empty name is a selector
\* whose Sel is nil), every set of declared methods, with and without
\* type information
AllIdents == {idM, idV, idQ, idPP, idN, idU}
OracleInputs ==
  {[methods |-> ms, infoNil |-> nl, mode |-> md,
    files |-> <<[comments |-> <<>>,
                 stmts |-> <<Assign(<<Blank>>, <<Sel(Ident(id), f, 0, FALSE)>>)>>]>>] :
     ms \in SUBSET (mProtoMarkers \cup {mGetB, mGetGetX}),
     nl \in BOOLEAN, md \in {StandaloneMode, GolangciLintMode},
     id \in AllIdents, f \in {fB, fD, fGetX, <<>>}}

InitOracle ==
  /\ \E in \in OracleInputs :
       /\ methods = in.methods
       /\ infoNil = in.infoNil
       /\ mode = in.mode
       /\ files = in.files
  /\ events = <<>>
  /\ i = 1
  /\ diags = <<>>
  /\ issues = <<>>
  /\ filter = NewPosFilter
  /\ reports = <<>>
  /\ run = 1
  /\ pc = "start"

NextOracle ==
  \/ RunV1_Start
  \/ Nodes_Pop
  \/ Nodes_AssignStmt
  \/ Nodes_SelectorExpr
  \/ RunV1_Return

SpecOracle == InitOracle /\ [][NextOracle]_vars

\* ============================================== properties, first revision
\* the Findings of a run of the first revision, in either output mode
FindingsV1 == {diags[j] : j \in 1..Len(diags)} \cup {issues[j] : j \in 1..Len(issues)}

Overlap(p1, e1, p2, e2) == p1 < e2 /\ p2 < e1

\* the field accesses in exempt position, from the files as parsed: the
\* selector left-hand sides of assignments, the selector operands of ++/--
\* and of &
ExemptAccesses ==
  LET evs == events IN
  UNION {
    LET ev == evs[j]
        n == ev.node
        kids == Kids(n, ev.pos)
    IN CASE n.k = "Assign" ->
              {[n |-> kids[l].n, p |-> kids[l].p] :
                 l \in {l \in 1..Len(n.X) : n.X[l].k = "Sel"}}
         [] n.k = "IncDec" /\ n.X[1].k = "Sel" -> {kids[1]}
         [] n.k = "Unary" /\ n.name = opAND /\ n.X[1].k = "Sel" -> {kids[1]}
         [] OTHER -> {}
    : j \in {j \in 1..Len(evs) : evs[j].push} }

\* C1: no Finding lies on a field access that is the target of an
\* assignment, the operand of ++ or --, or the operand of &, whether or not
\* the field has a getter.
C1_NoExemptFinding ==
  \A a \in ExemptAccesses : \A f \in FindingsV1 :
    ~Overlap(f.Pos, f.End, a.p, a.p + Len(SrcText(a.n)))

\* a finished run over an address-of whose operand has an in-scope base and a
\* declared getter
C1_Witness ==
  /\ pc = "done"
  /\ \E a \in ExemptAccesses :
       /\ analyzeSelectorExpr(a.n, a.p) # <<>>
       /\ \E j \in 1..Len(events) :
            events[j].node.k = "Unary" /\ events[j].pos + 1 = a.p


\* the selector nodes of the traversed files lying on a range
SelNodesAt(p, e) ==
  {events[j].node : j \in {j \in 1..Len(events) :
      events[j].push /\ events[j].node.k = "Sel"
      /\ events[j].pos = p /\ events[j].end = e}}

\* C2: the source ranges of any two distinct Findings of a run are
\* disjoint; nested selectors such as a.B and a.B.C never both yield one.
C2_NoOverlappingFindings ==
  \A f \in FindingsV1 : \A g \in FindingsV1 :
    f # g => ~Overlap(f.Pos, f.End, g.Pos, g.End)

\* the selector of the single statement  _ = id.F  of an oracle input
OracleSel == files[1].stmts[1].Y[1]

\* C4: base.F is reported exactly when F does not start with "Get", type
\* information is present and the base type is, through at most one pointer,
\* the named type T, T declares ProtoReflect or declares ProtoMessage
\* without MarshalToSizedBuffer, and T declares Get+F; otherwise the run
\* ends with no Finding.
C4_OracleExact ==
  pc = "done" =>
    LET id == OracleSel.X[1].name
        F == OracleSel.name
        qualifies ==
          /\ ~HasPrefix(F, sGet)
          /\ ~infoNil
          /\ id \in {idM, idV, idQ}
          /\ \/ protoV2Method \in methods
             \/ protoV1Method \in methods /\ protocGenGoGoMethod \notin methods
          /\ (sGet \o F) \in methods
    IN /\ qualifies => \E f \in FindingsV1 :
                         f.Pos = 5 /\ f.End = 5 + Len(SrcText(OracleSel))
       /\ ~qualifies => FindingsV1 = {}

\* a finished run that reported a field of a type carrying only the older
\* marker, reached through the named pointer type
C4_Witness ==
  /\ pc = "done" /\ FindingsV1 # {}
  /\ protoV2Method \notin methods
  /\ OracleSel.X[1].name = idQ

\* C5: when T declares ProtoMessage and MarshalToSizedBuffer but not
\* ProtoReflect, no Finding is produced, whatever getters T declares.
C5_ScopeExclusion ==
  (protoV2Method \notin methods /\ protoV1Method \in methods
     /\ protocGenGoGoMethod \in methods)
  => FindingsV1 = {}

\* a finished run over the plain read  _ = m.D  of such a type that declares
\* GetD
C5_Witness ==
  /\ pc = "done"
  /\ protoV2Method \notin methods /\ protoV1Method \in methods
  /\ protocGenGoGoMethod \in methods /\ mGetD \in methods
  /\ files[1].stmts = <<Assign(<<Blank>>, <<ReadMD>>)>>

\* C6: every Finding of an access that format.Node can print carries as
\* From the exact source text of the access, as To the source text of the
\* base followed by .GetF(), and a sub-edit over the field identifier from F
\* to GetF().
C6_RewriteCorrectness ==
  \A f \in FindingsV1 :
    \E se \in SelNodesAt(f.Pos, f.End) :
      /\ ~PrintErr(se) => f.From = SrcText(se)
      /\ f.To = SrcText(se.X[1]) \o sDot \o sGet \o se.name \o sCall
      /\ f.SelFrom = se.name
      /\ f.SelTo = sGet \o se.name \o sCall
      /\ f.SelEnd = f.End /\ f.SelPos = f.End - Len(se.name)

\* a file whose header comment begins with the generation marker
HeaderGenerated(f) ==
  Len(f.comments) > 0 /\ HasPrefix(CommentText(f.comments[1]), sCodeGenerated)
\* position of the j-th statement of the k-th file
StmtPos(k, j) ==
  FileBase(files, k) + SumLen(files[k].comments, Len(files[k].comments))
    + SumLen(StmtTexts(files[k]), j - 1)
\* the plain reads  _ = e  of the k-th file whose access e qualifies
QualifyingReads(k) ==
  {j \in 1..Len(files[k].stmts) :
     LET st == files[k].stmts[j] IN
       /\ st.k = "Assign" /\ st.X = <<Blank>> /\ st.Y[1].k = "Sel"
       /\ analyzeSelectorExpr(st.Y[1], StmtPos(k, j) + 4) # <<>>}

\* C8: no Finding lies in a file whose header comment begins with
\* "Code generated", in either mode, and once the run is over every
\* qualifying read of the other files has its Finding.
C8_GeneratedFileExclusion ==
  /\ \A k \in 1..Len(files) : HeaderGenerated(files[k]) =>
       \A f \in FindingsV1 :
         ~(FileBase(files, k) <= f.Pos /\ f.Pos <= FileBase(files, k) + FileSize(files[k]))
  /\ pc = "done" =>
       \A k \in 1..Len(files) : ~HeaderGenerated(files[k]) =>
         \A j \in QualifyingReads(k) : \E f \in FindingsV1 :
           f.Pos = StmtPos(k, j) + 4
           /\ f.End = StmtPos(k, j) + Len(SrcText(files[k].stmts[j]))

\* a finished run over a generated file holding a qualifying read, next to
\* an ordinary file whose read was reported
C8_Witness ==
  /\ pc = "done"
  /\ \E k \in 1..Len(files) : HeaderGenerated(files[k]) /\ QualifyingReads(k) # {}
  /\ \E k \in 1..Len(files) : ~HeaderGenerated(files[k]) /\ QualifyingReads(k) # {}
  /\ FindingsV1 # {}

\* C10: a node whose pretty-printing fails yields no Finding, so no Finding
\* carries empty or partial text.
C10_SynthesisFailureSurfaced ==
  \A f \in FindingsV1 :
    /\ \A se \in SelNodesAt(f.Pos, f.End) : ~PrintErr(se)
    /\ f.From # <<>>
    /\ ~HasPrefix(f.To, sDot)


\* ================================================== Run, second revision
nodeTypesV2 == {"Assign", "Call", "Sel", "IncDec", "Unary"}

RECURSIVE NextPush(_, _, _)
\* inspector.Preorder: the next push event whose node kind is asked for
NextPush(evs, j, kinds) ==
  IF j > Len(evs) THEN Len(evs) + 1
  ELSE IF evs[j].push /\ evs[j].node.k \in kinds THEN j
  ELSE NextPush(evs, j + 1, kinds)

\* ---- PosFilter
\* filter.IsFiltered(pos)
IsFiltered(flt, pos) == pos \in flt.positions
\* filter.AddPos for every position of a set
AddPositions(flt, ps) == [flt EXCEPT !.positions = @ \cup ps]
\* filter.IsAlreadyReplaced(fset, pos, end): the range lies inside a
\* registered range, or encloses one
IsAlreadyReplaced(flt, pos, end) ==
  \E r \in flt.alreadyReplaced :
    \/ r[1] <= pos /\ end <= r[2]
    \/ pos <= r[1] /\ r[2] <= end
\* filter.AddAlreadyReplaced(fset, pos, end)
AddAlreadyReplaced(flt, pos, end) ==
  [flt EXCEPT !.alreadyReplaced = @ \cup {<<pos, end>>}]

\* ---- Process
\* the positions of the nodes of the sub-tree of the event at index j
SubtreePositions(j) == {events[l].pos : l \in j..events[j].index}

sErrFormat == <<"f", "o", "r", "m", "a", "t">>
\* a Result: skipped (no From/To), or the two texts
SkippedResult == [From |-> <<>>, To |-> <<>>]
\* result.Skipped()
Skipped(result) == result.To = <<>>

\* the classifier: the node starts an exempt sub-tree
Exempt(n) ==
  \/ n.k = "Assign" /\ \E l \in 1..Len(n.X) : n.X[l].k = "Sel"
  \/ n.k = "IncDec"
  \/ n.k = "Unary" /\ n.name = opAND

\* the synthesizer on the oracle's verdict r for node n: no verdict is a
\* skipped Result, a text that cannot be printed is an error
Synthesize(flt, n, r) ==
  IF r = <<>>
  THEN [filter |-> flt, result |-> SkippedResult, err |-> <<>>]
  ELSE IF PrintErr(n)
  THEN [filter |-> flt, result |-> SkippedResult, err |-> sErrFormat]
  ELSE [filter |-> flt, result |-> [From |-> r[1].From, To |-> r[1].To],
        err |-> <<>>]

\* Process(info, filter, n) for the node of the event at index j: the
\* classifier marks the positions of an exempt statement or operand as
\* filtered; a selector goes through the oracle and the synthesizer.  Yields
\* the filter after the call, the Result and the error ("" for nil).
Process(flt, j) ==
  IF Exempt(events[j].node)
  THEN [filter |-> AddPositions(flt, SubtreePositions(j)),
        result |-> SkippedResult, err |-> <<>>]
  ELSE IF events[j].node.k = "Sel"
  THEN Synthesize(flt, events[j].node,
                  analyzeSelectorExpr(events[j].node, events[j].pos))
  ELSE [filter |-> flt, result |-> SkippedResult, err |-> <<>>]

\* ---- analyse
\* the error diagnostic analyse reports when Process fails
ErrorDiag(ev, err) ==
  [Pos |-> ev.pos, End |-> ev.end,
   Message |-> [format |-> "error: %v", args |-> <<err>>],
   SuggestedFixes |-> <<>>]

Nothing(flt) == [filter |-> flt, diag |-> <<>>, report |-> <<>>]
Accepted(flt, ev, result) ==
  [filter |-> flt, diag |-> <<>>,
   report |-> <<[Pos |-> ev.pos, End |-> ev.end, result |-> result]>>]

\* analyse, lines 270-305, that never consults IsAlreadyReplaced
analyseNode_NoReplacedTest(flt, ev, pr) ==
  IF IsFiltered(flt, ev.pos) THEN Nothing(flt)
  ELSE IF pr.err # <<>>
  THEN [filter |-> pr.filter, diag |-> <<ErrorDiag(ev, pr.err)>>, report |-> <<>>]
  ELSE IF IsFiltered(pr.filter, ev.pos) \/ Skipped(pr.result)
  THEN Nothing(pr.filter)
  ELSE Accepted(AddAlreadyReplaced(pr.filter, ev.pos, ev.end), ev, pr.result)

\* analyse, lines 270-305, that returns the Report without registering its
\* range
analyseNode_NoRegister(flt, ev, pr) ==
  IF IsFiltered(flt, ev.pos) THEN Nothing(flt)
  ELSE IF pr.err # <<>>
  THEN [filter |-> pr.filter, diag |-> <<ErrorDiag(ev, pr.err)>>, report |-> <<>>]
  ELSE IF IsFiltered(pr.filter, ev.pos) \/ Skipped(pr.result)
          \/ IsAlreadyReplaced(pr.filter, ev.pos, ev.end)
  THEN Nothing(pr.filter)
  ELSE Accepted(pr.filter, ev, pr.result)

\* analyse, lines 270-305, on node ev with pr what Process yields for it:
\* the filter after the call, the diagnostic analyse reported itself, and
\* the Report (nil is the empty list)
analyseNode(flt, ev, pr) ==
  IF IsFiltered(flt, ev.pos) THEN Nothing(flt)
  ELSE IF pr.err # <<>>
  THEN [filter |-> pr.filter, diag |-> <<ErrorDiag(ev, pr.err)>>, report |-> <<>>]
  ELSE IF IsFiltered(pr.filter, ev.pos) \/ Skipped(pr.result)
          \/ IsAlreadyReplaced(pr.filter, ev.pos, ev.end)
  THEN Nothing(pr.filter)
  ELSE Accepted(AddAlreadyReplaced(pr.filter, ev.pos, ev.end), ev, pr.result)

\* analyse(pass, filter, n) for the node of the event at index j
analyse(flt, j) == analyseNode(flt, events[j], Process(flt, j))

\* ---- output adapters
\* fmt.Sprintf(msgFormat, from, to)
msg(from, to) ==
  [format |-> "avoid direct access to proto field %q use %q",
   args |-> <<from, to>>]

\* the Diagnostic of ToDiagReport with its message m
DiagWith(r, m) ==
  [Pos |-> r.Pos, End |-> r.End, Message |-> m,
   SuggestedFixes |->
     <<[Message |-> m,
        TextEdits |-> <<[Pos |-> r.Pos, End |-> r.End, NewText |-> r.result.To]>>]>>]

\* (r *Report) ToDiagReport()
ToDiagReport(r) == DiagWith(r, msg(r.result.From, r.result.To))

\* the lines of a file: its comments, then its statements
Lines(f) == f.comments \o StmtTexts(f)

\* the file of the set holding position p
FileOf(p) ==
  CHOOSE k \in 1..Len(files) :
    FileBase(files, k) <= p /\ p <= FileBase(files, k) + FileSize(files[k])
\* the line of the lines ls holding offset off
LineOf(ls, off) ==
  CHOOSE l \in 1..Len(ls) : SumLen(ls, l - 1) <= off /\ off < SumLen(ls, l)
PositionIn(k, off, ls) ==
  [Filename |-> k, Offset |-> off, Line |-> LineOf(ls, off),
   Column |-> off - SumLen(ls, LineOf(ls, off) - 1) + 1]
PositionInFile(k, p) == PositionIn(k, p - FileBase(files, k), Lines(files[k]))
\* fset.Position(p)
Position(p) == PositionInFile(FileOf(p), p)

\* the Issue of ToIssue with its position pos
IssueAt(r, pos) ==
  [Pos |-> pos, Message |-> msg(r.result.From, r.result.To),
   InlineFix |-> [StartCol |-> pos.Column - 1,
                  Length |-> Len(r.result.From),
                  NewString |-> r.result.To]]

\* (r *Report) ToIssue(fset)
ToIssue(r) == IssueAt(r, Position(r.Pos))

\* ---- Run
\* Run, lines 226-249: node types, generated files dropped, inspector and
\* a fresh PosFilter
RunV2_Start ==
  /\ pc = "start"
  /\ events' = NewInspector(files)
  /\ i' = NextPush(events', 1, nodeTypesV2)
  /\ issues' = <<>>
  /\ filter' = NewPosFilter
  /\ pc' = "run"
  /\ UNCHANGED <<methods, infoNil, files, mode, diags, reports, run>>

\* lines 252-261 of the callback on what analyse yields: a Report goes to
\* the adapter of the mode
Deliver(a) ==
  /\ filter' = a.filter
  /\ reports' = reports \o a.report
  /\ diags' = IF a.report # <<>> /\ mode = StandaloneMode
              THEN diags \o a.diag \o <<ToDiagReport(a.report[1])>>
              ELSE diags \o a.diag
  /\ issues' = IF a.report # <<>> /\ mode = GolangciLintMode
               THEN Append(issues, ToIssue(a.report[1]))
               ELSE issues

\* the Preorder callback: analyse the node and hand a Report to the adapter
\* of the mode
Preorder_callback ==
  /\ pc = "run" /\ i <= Len(events)
  /\ Deliver(analyse(filter, i))
  /\ i' = NextPush(events, i + 1, nodeTypesV2)
  /\ UNCHANGED <<methods, infoNil, files, mode, events, run, pc>>

\* Run returns issues
RunV2_Return ==
  /\ pc = "run" /\ i > Len(events)
  /\ pc' = "done"
  /\ UNCHANGED <<methods, infoNil, files, mode, events, i, diags, issues, filter,
                 reports, run>>


\* ---- applying the suggested fixes
\* index of the last dot of a text, 0 when it has none
LastDot(t) ==
  IF \A j \in 1..Len(t) : t[j] # "." THEN 0
  ELSE CHOOSE j \in 1..Len(t) : t[j] = "." /\ \A l \in (j + 1)..Len(t) : t[l] # "."

RECURSIVE ParseExpr(_)
\* the parser on a replacement text: identifier, selector, or call without
\* arguments
ParseExpr(t) ==
  IF Len(t) >= 2 /\ SubSeq(t, Len(t) - 1, Len(t)) = sCall
  THEN Call(ParseExpr(SubSeq(t, 1, Len(t) - 2)))
  ELSE IF LastDot(t) = 0 THEN Ident(t)
  ELSE Sel(ParseExpr(SubSeq(t, 1, LastDot(t) - 1)),
           SubSeq(t, LastDot(t) + 1, Len(t)), 0, FALSE)

\* every TextEdit of every SuggestedFix of the diagnostics
TextEdits ==
  UNION {UNION {{sf.TextEdits[l] : l \in 1..Len(sf.TextEdits)} :
                  sf \in {diags[j].SuggestedFixes[x] : x \in 1..Len(diags[j].SuggestedFixes)}}
           : j \in 1..Len(diags)}

RECURSIVE Rewrite(_, _, _)
\* the node at position p after the edits: an expression whose range is an
\* edit's range is replaced by the parse of the new text
Rewrite(n, p, edits) ==
  IF n.k \in {"Sel", "Call", "Ident"}
     /\ \E e \in edits : e.Pos = p /\ e.End = p + Len(SrcText(n))
  THEN ParseExpr((CHOOSE e \in edits :
                    e.Pos = p /\ e.End = p + Len(SrcText(n))).NewText)
  ELSE [n EXCEPT
          !.X = [j \in 1..Len(n.X) |-> Rewrite(n.X[j], Kids(n, p)[j].p, edits)],
          !.Y = [j \in 1..Len(n.Y) |->
                   Rewrite(n.Y[j], Kids(n, p)[Len(n.X) + j].p, edits)]]

\* the driver applies every suggested fix of a standalone run and the pass
\* runs again over the result
ApplyFixes ==
  /\ pc = "done" /\ run = 1 /\ mode = StandaloneMode
  /\ files' = [k \in 1..Len(files) |->
                 [files[k] EXCEPT !.stmts =
                    [j \in 1..Len(files[k].stmts) |->
                       Rewrite(files[k].stmts[j], StmtPos(k, j), TextEdits)]]]
  /\ run' = 2
  /\ pc' = "start"
  /\ events' = <<>>
  /\ i' = 1
  /\ diags' = <<>>
  /\ issues' = <<>>
  /\ reports' = <<>>
  /\ filter' = NewPosFilter
  /\ UNCHANGED <<methods, infoNil, mode>>

NextV2 ==
  \/ RunV2_Start
  \/ Preorder_callback
  \/ RunV2_Return
  \/ ApplyFixes

SpecV2 == Init /\ [][NextV2]_vars

\* ============================================= properties, second revision
\* the event at index j lies in an exempt statement or operand
InExempt(j) ==
  \E a \in 1..j :
    /\ events[a].push /\ events[a].index >= j
    /\ LET n == events[a].node IN
         \/ n.k = "Assign" /\ \E l \in 1..Len(n.X) : n.X[l].k = "Sel"
         \/ n.k = "IncDec"
         \/ n.k = "Unary" /\ n.name = opAND

\* the outermost selectors of the accesses in pure-read position
ChainHeads ==
  {j \in 1..Len(events) :
     /\ events[j].push /\ events[j].node.k = "Sel" /\ ~InExempt(j)
     /\ ~(j > 1 /\ events[j - 1].push /\ events[j - 1].node.k = "Sel")}
\* the selectors of the access at head j that qualify: in-scope base type
\* and declared getter
Candidates(j) ==
  {l \in j..events[j].index :
     /\ events[l].push /\ events[l].node.k = "Sel"
     /\ analyzeSelectorExpr(events[l].node, events[l].pos) # <<>>}
\* the Reports that touch the access at head j
Hits(j) ==
  {x \in 1..Len(reports) :
     Overlap(reports[x].Pos, reports[x].End, events[j].pos, events[j].end)}
Least(S) == CHOOSE l \in S : \A o \in S : l <= o

C7_Idempotence ==
  (run = 2 /\ pc = "done") => reports = <<>>

\* the ranges of the Reports accepted so far in the run
ReportRanges == {<<reports[x].Pos, reports[x].End>> : x \in 1..Len(reports)}
\* the ranges of the Findings handed out so far: diagnostics with a fix
DiagRanges ==
  {<<diags[x].Pos, diags[x].End>> :
     x \in {x \in 1..Len(diags) : diags[x].SuggestedFixes # <<>>}}

\* C9: the registry is empty when a run starts; in every state its ranges
\* are exactly the ranges of the Findings accepted so far, one range per
\* Finding; and every accepted Finding has been handed to the adapter of
\* the mode.
C9_RegistryProtocol ==
  /\ pc = "start" => filter.alreadyReplaced = {}
  /\ filter.alreadyReplaced = ReportRanges
  /\ Cardinality(filter.alreadyReplaced) = Len(reports)
  /\ mode = StandaloneMode => DiagRanges = filter.alreadyReplaced
  /\ mode = GolangciLintMode => Len(issues) = Len(reports)

\* a run that has registered two ranges and has also reported a processing
\* error, which registered nothing
C9_Witness ==
  /\ Cardinality(filter.alreadyReplaced) >= 2
  /\ \E x \in 1..Len(diags) : diags[x].SuggestedFixes = <<>>

====
